---- MODULE Spec2Model ----
(***************************************************************************)
(* Model of src/app.py: the GET /fetch_data endpoint.  Every request loads *)
(* the remote CSV into its own DataFrame, narrows it by up to three        *)
(* equality filters (year, country, mkt_name), replaces the missing cells  *)
(* by '', serialises the rows with to_json(orient='records'), and hands    *)
(* the value to the HTTP layer.  Requests are interleaved statement by     *)
(* statement; the remote object is fixed for the length of a behaviour.    *)
(***************************************************************************)
EXTENDS Integers, Sequences, FiniteSets, TLC

VARIABLES remote, pc, crit, df, exc, ret, resp, branch, loads, nfilt

vars == <<remote, pc, crit, df, exc, ret, resp, branch, loads, nfilt>>

(* Largest number of data rows of the remote CSV. *)
MaxRows == 2

(* The requests the server may have in flight at once. *)
Reqs == {"r1", "r2"}

-----------------------------------------------------------------------------
(* Values.  A cell of a DataFrame is a missing value (NaN), an integer or  *)
(* a string; a query parameter is None, an integer or a string.            *)

Null == [t |-> "null", n |-> 0, s |-> ""]
Num(n) == [t |-> "int", n |-> n, s |-> ""]
Txt(s) == [t |-> "str", n |-> 0, s |-> s]
None == [t |-> "none", n |-> 0, s |-> ""]

Columns == {"year", "country", "mkt_name", "price"}

(* read_csv never yields '' in a cell: an empty field is parsed as NaN.    *)
RowA == [year |-> Num(2020), country |-> Txt("USA"), mkt_name |-> Txt("Retail"), price |-> Null]
RowB == [year |-> Num(2021), country |-> Txt("USA"), mkt_name |-> Null, price |-> Num(5)]
RowC == [year |-> Null, country |-> Null, mkt_name |-> Txt("Retail"), price |-> Num(7)]

RowPool == {RowA, RowB, RowC}

(* The header of the CSV: all four columns, or one without 'country'.      *)
ColumnSets == {Columns, Columns \ {"country"}}

Project(row, cols) == [c \in cols |-> row[c]]

SeqsUpTo(S, n) == UNION {[1..k -> S] : k \in 0..n}

Frames ==
    {[cols |-> cs, rows |-> [i \in DOMAIN rs |-> Project(rs[i], cs)]] :
        cs \in ColumnSets, rs \in SeqsUpTo(RowPool, MaxRows)}

NoFrame == [cols |-> {}, rows |-> <<>>]

(* What the fixed S3 URL serves: a CSV document, nothing (the host is      *)
(* unreachable), or a document read_csv cannot tokenize.                   *)
RemoteStates ==
    {[kind |-> "csv", frame |-> f] : f \in Frames}
        \cup {[kind |-> "unreachable", frame |-> NoFrame],
              [kind |-> "malformed", frame |-> NoFrame]}

YearArgs == {None, Num(2020), Num(2099)}
CountryArgs == {None, Txt("USA")}
MarketArgs == {None, Txt("Retail"), Txt("")}

-----------------------------------------------------------------------------
(* Exceptions and Python values.                                           *)

NoExc == [type |-> "none", arg |-> ""]
KeyError(col) == [type |-> "KeyError", arg |-> col]
ValueError(msg) == [type |-> "ValueError", arg |-> msg]
URLError == [type |-> "URLError", arg |-> "<urlopen error>"]
ParserError == [type |-> "ParserError", arg |-> "Error tokenizing data."]

NoDataMsg == "No data found for the specified filters."

(* str(e): the message, except that a KeyError's is the repr of its key.   *)
StrOf(e) == IF e.type = "KeyError" THEN "'" \o e.arg \o "'" ELSE e.arg

(* 'except Exception' catches every class derived from Exception.          *)
ExceptionClasses == {"KeyError", "ValueError", "URLError", "ParserError"}

NotReturned == [py |-> "unset"]
PyNone == [py |-> "none"]
PyStr(t) == [py |-> "str", text |-> t]
PyDict(msg) == [py |-> "dict", error |-> msg]
PyTuple(d, code) == [py |-> "tuple", first |-> d, second |-> code]

NoResp == [status |-> 0, body |-> [j |-> "none"]]

-----------------------------------------------------------------------------
(* DataFrame operations.                                                   *)

(* series == value: elementwise; NaN equals nothing, and an integer never  *)
(* equals a string.                                                        *)
Eq(cell, v) == cell.t # "null" /\ cell = v

(* df[df[col] != v]: the mask inverted.                                    *)
FilterNe(frame, col, v) ==
    [frame EXCEPT !.rows = SelectSeq(frame.rows, LAMBDA row : ~Eq(row[col], v))]

(* df[df[col] == v]: the rows whose mask is True, in their order.          *)
Filter(frame, col, v) ==
    [frame EXCEPT !.rows = SelectSeq(frame.rows, LAMBDA row : Eq(row[col], v))]

FilterColumns == {"year", "country", "mkt_name"}

(* fillna restricted to the three filter columns.                          *)
FillNaFilterColumns(frame) ==
    [frame EXCEPT !.rows =
        [i \in DOMAIN frame.rows |->
            [c \in frame.cols |->
                IF frame.rows[i][c].t = "null" /\ c \in FilterColumns
                THEN Txt("") ELSE frame.rows[i][c]]]]

(* df.fillna(''): every missing cell of every column becomes ''.           *)
FillNa(frame) ==
    [frame EXCEPT !.rows =
        [i \in DOMAIN frame.rows |->
            [c \in frame.cols |->
                IF frame.rows[i][c].t = "null" THEN Txt("") ELSE frame.rows[i][c]]]]

(* df.empty: an axis of length 0.                                          *)
Empty(frame) == Len(frame.rows) = 0 \/ frame.cols = {}

JsonOf(cell) ==
    CASE cell.t = "int" -> [j |-> "number", n |-> cell.n, s |-> ""]
      [] cell.t = "str" -> [j |-> "string", n |-> 0, s |-> cell.s]
      [] OTHER -> [j |-> "null", n |-> 0, s |-> ""]

(* df.to_json(orient='records'): a str holding the text of a JSON array    *)
(* with one object per row, keyed by the column names.                     *)
ToJson(frame) ==
    PyStr([j |-> "array",
           items |-> [i \in DOMAIN frame.rows |->
                        [c \in frame.cols |-> JsonOf(frame.rows[i][c])]]])

(* A module-level frame: a request picks up the frame another request is   *)
(* working on instead of loading its own.                                  *)
ReadCsvOtherFrame(r) ==
    CASE remote.kind = "csv" ->
            [ok |-> TRUE,
             frame |-> IF \E q \in Reqs \ {r} : df[q] # NoFrame
                       THEN df[CHOOSE q \in Reqs \ {r} : df[q] # NoFrame]
                       ELSE remote.frame,
             exc |-> NoExc]
      [] remote.kind = "unreachable" -> [ok |-> FALSE, frame |-> NoFrame, exc |-> URLError]
      [] OTHER -> [ok |-> FALSE, frame |-> NoFrame, exc |-> ParserError]

(* A download buffer shared by the requests: the first read_csv consumes   *)
(* it and a later one parses the header alone.                             *)
ReadCsvSharedBuffer(r) ==
    CASE remote.kind = "csv" ->
            [ok |-> TRUE,
             frame |-> IF \E q \in Reqs \ {r} : loads[q] > 0
                       THEN [remote.frame EXCEPT !.rows = <<>>]
                       ELSE remote.frame,
             exc |-> NoExc]
      [] remote.kind = "unreachable" -> [ok |-> FALSE, frame |-> NoFrame, exc |-> URLError]
      [] OTHER -> [ok |-> FALSE, frame |-> NoFrame, exc |-> ParserError]

(* pd.read_csv(url): the parsed frame, or the exception it raises.         *)
ReadCsv(r) ==
    CASE remote.kind = "csv" -> [ok |-> TRUE, frame |-> remote.frame, exc |-> NoExc]
      [] remote.kind = "unreachable" -> [ok |-> FALSE, frame |-> NoFrame, exc |-> URLError]
      [] OTHER -> [ok |-> FALSE, frame |-> NoFrame, exc |-> ParserError]

(* A failed load is tried again.                                           *)
LoadTargetRetry(out) == IF out.ok THEN "year" ELSE "read"

(* Where control goes after line 13: on to the filters, or, when read_csv  *)
(* raised, straight to the except clause of line 33.                       *)
LoadTarget(out) == IF out.ok THEN "year" ELSE "except"

(* The 'is not None' test left out.                                        *)
ProvidedAlways(v) == TRUE

(* 'if <parameter> is not None'.                                           *)
Provided(v) == v # None

(* The empty frame serialised like any other: '[]'.                        *)
EmitAlways(frame) == [raised |-> FALSE, val |-> ToJson(frame), exc |-> NoExc]

(* 'return None' in place of the raise.                                    *)
EmitNone(frame) ==
    IF Empty(frame)
    THEN [raised |-> FALSE, val |-> PyNone, exc |-> NoExc]
    ELSE [raised |-> FALSE, val |-> ToJson(frame), exc |-> NoExc]

(* Lines 27-32: raise on an empty frame, else return the JSON text.        *)
EmitResult(frame) ==
    IF Empty(frame)
    THEN [raised |-> TRUE, val |-> NotReturned, exc |-> ValueError(NoDataMsg)]
    ELSE [raised |-> FALSE, val |-> ToJson(frame), exc |-> NoExc]

(* 'except ValueError as e'.                                               *)
CatchesValueErrorOnly(e) == e.type = "ValueError"

(* 'except Exception as e'.                                                *)
Catches(e) == e.type \in ExceptionClasses

(* return {'error': str(e)}                                                *)
ExceptBody(e) == PyDict(StrOf(e))

BadRequest == 400

(* The HTTP layer's JSON rendering of the value a route returns: a str     *)
(* becomes a JSON string literal, a dict an object, a tuple an array.      *)
EncodeDict(d) == [j |-> "object", members |-> [error |-> d.error]]

Encode(v) ==
    CASE v.py = "str" -> [j |-> "string", text |-> v.text]
      [] v.py = "dict" -> EncodeDict(v)
      [] v.py = "tuple" -> [j |-> "array", first |-> EncodeDict(v.first), second |-> v.second]
      [] OTHER -> [j |-> "null"]

(* Lines 39-49: the route's choice of return value.                        *)
ApiResult(v, e) ==
    IF v = NotReturned
    THEN [branch |-> "except", val |-> PyTuple(PyDict(StrOf(e)), BadRequest)]
    ELSE IF v = PyNone
    THEN [branch |-> "none", val |-> PyTuple(PyDict(NoDataMsg), BadRequest)]
    ELSE [branch |-> "return", val |-> v]

-----------------------------------------------------------------------------
(* State.                                                                  *)

Init ==
    /\ remote \in RemoteStates
    /\ pc = [r \in Reqs |-> "idle"]
    /\ crit = [r \in Reqs |-> [year |-> None, country |-> None, market |-> None]]
    /\ df = [r \in Reqs |-> NoFrame]
    /\ exc = [r \in Reqs |-> NoExc]
    /\ ret = [r \in Reqs |-> NotReturned]
    /\ resp = [r \in Reqs |-> NoResp]
    /\ branch = [r \in Reqs |-> "none"]
    /\ loads = [r \in Reqs |-> 0]
    /\ nfilt = [r \in Reqs |-> 0]

(* A request arrives with its query parameters.                            *)
Start(r) ==
    /\ pc[r] = "idle"
    /\ \E y \in YearArgs, c \in CountryArgs, m \in MarketArgs :
          crit' = [crit EXCEPT ![r] = [year |-> y, country |-> c, market |-> m]]
    /\ pc' = [pc EXCEPT ![r] = "read"]
    /\ UNCHANGED <<remote, df, exc, ret, resp, branch, loads, nfilt>>

(* Line 13.                                                                *)
Load(r) ==
    /\ pc[r] = "read"
    /\ loads' = [loads EXCEPT ![r] = @ + 1]
    /\ LET out == ReadCsv(r) IN
          IF out.ok
          THEN /\ df' = [df EXCEPT ![r] = out.frame]
               /\ pc' = [pc EXCEPT ![r] = LoadTarget(out)]
               /\ exc' = exc
          ELSE /\ exc' = [exc EXCEPT ![r] = out.exc]
               /\ pc' = [pc EXCEPT ![r] = LoadTarget(out)]
               /\ df' = df
    /\ UNCHANGED <<remote, crit, ret, resp, branch, nfilt>>

(* One 'if v is not None: df = df[df[col] == v]' statement.                *)
FilterStep(r, here, col, v, next) ==
    /\ pc[r] = here
    /\ IF ~Provided(v)
       THEN /\ pc' = [pc EXCEPT ![r] = next]
            /\ UNCHANGED <<df, exc, nfilt>>
       ELSE IF col \notin df[r].cols
       THEN /\ exc' = [exc EXCEPT ![r] = KeyError(col)]
            /\ pc' = [pc EXCEPT ![r] = "except"]
            /\ UNCHANGED <<df, nfilt>>
       ELSE /\ df' = [df EXCEPT ![r] = Filter(df[r], col, v)]
            /\ nfilt' = [nfilt EXCEPT ![r] = @ + 1]
            /\ pc' = [pc EXCEPT ![r] = next]
            /\ exc' = exc
    /\ UNCHANGED <<remote, crit, ret, resp, branch, loads>>

(* Lines 15-17.                                                            *)
FilterYear(r) == FilterStep(r, "year", "year", crit[r].year, "country")

(* Lines 18-20.                                                            *)
FilterCountry(r) == FilterStep(r, "country", "country", crit[r].country, "market")

(* Lines 21-23.                                                            *)
FilterMarket(r) == FilterStep(r, "market", "mkt_name", crit[r].market, "fillna")

(* Line 24.                                                                *)
Fill(r) ==
    /\ pc[r] = "fillna"
    /\ df' = [df EXCEPT ![r] = FillNa(df[r])]
    /\ pc' = [pc EXCEPT ![r] = "emit"]
    /\ UNCHANGED <<remote, crit, exc, ret, resp, branch, loads, nfilt>>

(* Lines 27-32.                                                            *)
Emit(r) ==
    /\ pc[r] = "emit"
    /\ LET out == EmitResult(df[r]) IN
          IF out.raised
          THEN /\ exc' = [exc EXCEPT ![r] = out.exc]
               /\ pc' = [pc EXCEPT ![r] = "except"]
               /\ ret' = ret
          ELSE /\ ret' = [ret EXCEPT ![r] = out.val]
               /\ pc' = [pc EXCEPT ![r] = "api"]
               /\ exc' = exc
    /\ UNCHANGED <<remote, crit, df, resp, branch, loads, nfilt>>

(* Lines 33-34: the handler returns the error dict; an exception it does   *)
(* not catch leaves fetch_data without a return value.                     *)
Except(r) ==
    /\ pc[r] = "except"
    /\ ret' = [ret EXCEPT ![r] = IF Catches(exc[r]) THEN ExceptBody(exc[r]) ELSE NotReturned]
    /\ pc' = [pc EXCEPT ![r] = "api"]
    /\ UNCHANGED <<remote, crit, df, exc, resp, branch, loads, nfilt>>

(* Lines 37-49: the route returns, and the HTTP layer sends the body with  *)
(* its default status.                                                     *)
Api(r) ==
    /\ pc[r] = "api"
    /\ LET out == ApiResult(ret[r], exc[r]) IN
          /\ branch' = [branch EXCEPT ![r] = out.branch]
          /\ resp' = [resp EXCEPT ![r] = [status |-> 200, body |-> Encode(out.val)]]
    /\ pc' = [pc EXCEPT ![r] = "done"]
    /\ UNCHANGED <<remote, crit, df, exc, ret, loads, nfilt>>

(* The response has been sent; the request's locals are dropped.           *)
Finish(r) ==
    /\ pc[r] = "done"
    /\ pc' = [pc EXCEPT ![r] = "idle"]
    /\ crit' = [crit EXCEPT ![r] = [year |-> None, country |-> None, market |-> None]]
    /\ df' = [df EXCEPT ![r] = NoFrame]
    /\ exc' = [exc EXCEPT ![r] = NoExc]
    /\ ret' = [ret EXCEPT ![r] = NotReturned]
    /\ resp' = [resp EXCEPT ![r] = NoResp]
    /\ branch' = [branch EXCEPT ![r] = "none"]
    /\ loads' = [loads EXCEPT ![r] = 0]
    /\ nfilt' = [nfilt EXCEPT ![r] = 0]
    /\ UNCHANGED remote

(* The statements of one request's pass through the route.                 *)
Run(r) ==
    \/ Load(r)
    \/ FilterYear(r)
    \/ FilterCountry(r)
    \/ FilterMarket(r)
    \/ Fill(r)
    \/ Emit(r)
    \/ Except(r)
    \/ Api(r)

Next == \E r \in Reqs : Start(r) \/ Run(r) \/ Finish(r)

Spec == Init /\ [][Next]_vars

(* The handler is synchronous code: once a request has started, its next   *)
(* statement is eventually executed (read_csv returns or raises).          *)
FairSpec == Spec /\ \A r \in Reqs : WF_vars(Run(r))

-----------------------------------------------------------------------------
(* Vocabulary of the properties.                                           *)

(* fetch_data has returned to the route (or left it by an exception).      *)
Returned(r) == pc[r] \in {"api", "done"}

(* fetch_data returned the serialised rows.                                *)
Success(r) == Returned(r) /\ ret[r].py = "str"

(* The records of a success payload.                                       *)
Records(r) == ret[r].text.items

CriterionColumn == [year |-> "year", country |-> "country", market |-> "mkt_name"]

Wanted(c) == {k \in DOMAIN CriterionColumn : c[k] # None}

ColumnsPresent(frame, c) == \A k \in Wanted(c) : CriterionColumn[k] \in frame.cols

(* The row has, in the column of every provided criterion, that value.     *)
RowMatches(row, c) == \A k \in Wanted(c) : row[CriterionColumn[k]] = c[k]

MatchingIdx(frame, c) == {i \in DOMAIN frame.rows : RowMatches(frame.rows[i], c)}

(* The indices of the matching rows, ascending.                            *)
MatchingSeq(frame, c) ==
    SelectSeq([i \in DOMAIN frame.rows |-> i], LAMBDA i : i \in MatchingIdx(frame, c))

JsonEmptyString == [j |-> "string", n |-> 0, s |-> ""]

(* A dataset row as a flat record: numbers, strings, '' for a missing cell. *)
RecordOf(row) ==
    [c \in DOMAIN row |->
        CASE row[c].t = "int" -> [j |-> "number", n |-> row[c].n, s |-> ""]
          [] row[c].t = "str" -> [j |-> "string", n |-> 0, s |-> row[c].s]
          [] OTHER -> JsonEmptyString]

ExpectedRecords(frame, c) ==
    LET idx == MatchingSeq(frame, c)
    IN  [k \in DOMAIN idx |-> RecordOf(frame.rows[idx[k]])]

ErrorObject(msg) == [j |-> "object", members |-> [error |-> msg]]

NoCriteria == [year |-> None, country |-> None, market |-> None]

-----------------------------------------------------------------------------
(* C1: a success payload of fetch_data holds exactly the dataset rows that *)
(* equal every provided criterion, each once and in the dataset's order,   *)
(* so its record count is the number of matching rows; and a request whose *)
(* criteria match some row of the dataset is a success.                    *)
C1_ExactMatches ==
    \A r \in Reqs :
        /\ Success(r) =>
              /\ remote.kind = "csv"
              /\ ColumnsPresent(remote.frame, crit[r])
              /\ Records(r) = ExpectedRecords(remote.frame, crit[r])
              /\ Len(Records(r)) = Cardinality(MatchingIdx(remote.frame, crit[r]))
        /\ ( /\ Returned(r)
             /\ remote.kind = "csv"
             /\ ColumnsPresent(remote.frame, crit[r])
             /\ MatchingIdx(remote.frame, crit[r]) # {} ) => Success(r)

(* A request with a year criterion that kept one row of two.               *)
C1_Witness ==
    \E r \in Reqs :
        /\ pc[r] = "done"
        /\ Success(r)
        /\ crit[r].year = Num(2020)
        /\ Len(remote.frame.rows) = 2
        /\ Len(Records(r)) = 1
        /\ Records(r)[1].year.n = 2020

(* C2: when the provided criteria match no row of the dataset, fetch_data  *)
(* answers the error body "No data found for the specified filters." and   *)
(* no array; a success payload has at least one record.                    *)
C2_EmptyIsError ==
    \A r \in Reqs :
        /\ ( /\ Returned(r)
             /\ remote.kind = "csv"
             /\ ColumnsPresent(remote.frame, crit[r])
             /\ MatchingIdx(remote.frame, crit[r]) = {} ) =>
                /\ ret[r] = PyDict(NoDataMsg)
                /\ pc[r] = "done" => resp[r].body = ErrorObject(NoDataMsg)
        /\ Success(r) => Len(Records(r)) >= 1

(* A request on a dataset with rows, none of which has the wanted year.    *)
C2_Witness ==
    \E r \in Reqs :
        /\ pc[r] = "done"
        /\ remote.kind = "csv"
        /\ Len(remote.frame.rows) >= 1
        /\ crit[r].year = Num(2099)
        /\ resp[r].body = ErrorObject(NoDataMsg)

(* C3, as stated: without criteria the payload is the whole dataset, for   *)
(* every dataset the loader can return.                                    *)
C3_WholeDatasetAlways ==
    \A r \in Reqs :
        ( /\ Returned(r)
          /\ remote.kind = "csv"
          /\ crit[r] = NoCriteria ) =>
             /\ Success(r)
             /\ Records(r) = [i \in DOMAIN remote.frame.rows |-> RecordOf(remote.frame.rows[i])]

(* C3, amended: without criteria the payload is the whole dataset, nulls   *)
(* as '', when the dataset has at least one row; for a dataset without     *)
(* rows the answer is the no-data error body.                              *)
C3_WholeDatasetNonEmpty ==
    \A r \in Reqs :
        ( /\ Returned(r)
          /\ remote.kind = "csv"
          /\ crit[r] = NoCriteria ) =>
             IF Len(remote.frame.rows) >= 1
             THEN /\ Success(r)
                  /\ Records(r) =
                        [i \in DOMAIN remote.frame.rows |-> RecordOf(remote.frame.rows[i])]
             ELSE ret[r] = PyDict(NoDataMsg)

(* A request without criteria answered with both rows of the dataset.      *)
C3_Witness ==
    \E r \in Reqs :
        /\ pc[r] = "done"
        /\ crit[r] = NoCriteria
        /\ Success(r)
        /\ Len(Records(r)) = 2
        /\ Records(r)[1] # Records(r)[2]

(* C4: every failure of the pipeline (the load, no surviving row, a filter *)
(* on a column the dataset lacks) is caught in fetch_data and becomes the  *)
(* body {"error": <the exception's description>}; none leaves fetch_data   *)
(* or the route; a request ends with the full result or an error body.     *)
C4_FailuresBecomeErrorBodies ==
    \A r \in Reqs :
        /\ Returned(r) =>
              /\ ret[r] # NotReturned
              /\ exc[r] # NoExc => ret[r] = PyDict(StrOf(exc[r]))
              /\ exc[r] = NoExc =>
                    /\ Success(r)
                    /\ Records(r) = ExpectedRecords(remote.frame, crit[r])
              /\ remote.kind = "unreachable" => ret[r] = PyDict("<urlopen error>")
              /\ remote.kind = "malformed" => ret[r] = PyDict("Error tokenizing data.")
              /\ ( /\ remote.kind = "csv"
                   /\ crit[r].country # None
                   /\ "country" \notin remote.frame.cols ) => ret[r] = PyDict("'country'")
        /\ pc[r] = "done" =>
              /\ branch[r] # "except"
              /\ exc[r] # NoExc => resp[r].body = ErrorObject(StrOf(exc[r]))

(* A filter on a column the dataset lacks, reached after the year filter   *)
(* had already narrowed the rows.                                          *)
C4_Witness ==
    \E r \in Reqs :
        /\ pc[r] = "done"
        /\ exc[r] = KeyError("country")
        /\ nfilt[r] = 1
        /\ resp[r].body = ErrorObject("'country'")

(* C5: in every record of a success payload a cell that was missing in the *)
(* dataset is '', in every column, never null and never left out; the      *)
(* replacement comes after the filters, so a missing cell matches no       *)
(* criterion, not even ''.                                                 *)
C5_NullsBecomeEmptyString ==
    \A r \in Reqs :
        /\ Success(r) =>
              LET idx == MatchingSeq(remote.frame, crit[r]) IN
              /\ Len(Records(r)) = Len(idx)
              /\ \A k \in DOMAIN Records(r) :
                    /\ DOMAIN Records(r)[k] = remote.frame.cols
                    /\ \A c \in remote.frame.cols :
                          /\ Records(r)[k][c].j \in {"number", "string"}
                          /\ (remote.frame.rows[idx[k]][c] = Null)
                                <=> (Records(r)[k][c] = JsonEmptyString)
        /\ ( /\ Returned(r)
             /\ remote.kind = "csv"
             /\ "mkt_name" \in remote.frame.cols
             /\ crit[r].market = Txt("") ) => ~Success(r)

(* A payload with a record whose missing cells, in a filter column and in  *)
(* another one, came out as ''.                                            *)
C5_Witness ==
    \E r \in Reqs :
        /\ pc[r] = "done"
        /\ Success(r)
        /\ crit[r].country = Txt("USA")
        /\ \E k \in DOMAIN Records(r) : Records(r)[k].price = JsonEmptyString
        /\ \E k \in DOMAIN Records(r) : Records(r)[k].mkt_name = JsonEmptyString

(* C6, as stated: on success the body of GET /fetch_data is a JSON array   *)
(* of objects, one per surviving row, keyed by the column names.           *)
C6_BodyIsRecordArray ==
    \A r \in Reqs :
        (pc[r] = "done" /\ Success(r)) =>
            /\ resp[r].body.j = "array"
            /\ resp[r].body.items = Records(r)

-----------------------------------------------------------------------------
(* One request run alone against the remote object.                        *)

AloneLoaded(rem) ==
    CASE rem.kind = "csv" -> [ok |-> TRUE, frame |-> rem.frame, exc |-> NoExc]
      [] rem.kind = "unreachable" -> [ok |-> FALSE, frame |-> NoFrame, exc |-> URLError]
      [] OTHER -> [ok |-> FALSE, frame |-> NoFrame, exc |-> ParserError]

AloneFilter(st, col, v) ==
    IF ~st.ok \/ v = None THEN st
    ELSE IF col \notin st.frame.cols
    THEN [ok |-> FALSE, frame |-> st.frame, exc |-> KeyError(col)]
    ELSE [st EXCEPT !.frame = Filter(st.frame, col, v)]

AloneAfterYear(rem, c) == AloneFilter(AloneLoaded(rem), "year", c.year)
AloneAfterCountry(rem, c) == AloneFilter(AloneAfterYear(rem, c), "country", c.country)
AloneAfterMarket(rem, c) == AloneFilter(AloneAfterCountry(rem, c), "mkt_name", c.market)

AloneReturn(rem, c) ==
    LET st == AloneAfterMarket(rem, c) IN
    IF ~st.ok THEN PyDict(StrOf(st.exc))
    ELSE LET out == EmitResult(FillNa(st.frame)) IN
         IF out.raised THEN PyDict(StrOf(out.exc)) ELSE out.val

AloneResponse(rem, c) == [status |-> 200, body |-> Encode(AloneReturn(rem, c))]

(* C7: two identical requests against the unchanged remote object get      *)
(* identical bodies, whatever else was served before or between them.      *)
C7_IdenticalRequestsIdenticalBodies ==
    \A r, q \in Reqs :
        (pc[r] = "done" /\ pc[q] = "done" /\ crit[r] = crit[q]) =>
            resp[r].body = resp[q].body

(* Two finished requests with the same year criterion and the same rows.   *)
C7_Witness ==
    \E r, q \in Reqs :
        /\ r # q
        /\ pc[r] = "done" /\ pc[q] = "done"
        /\ crit[r] = crit[q]
        /\ crit[r].year = Num(2020)
        /\ Success(r) /\ Success(q)
        /\ Len(remote.frame.rows) = 2
        /\ Len(Records(q)) = 1

(* C8: under every interleaving each request holds, at every statement,    *)
(* the frame it would hold run alone, and ends with the response it would  *)
(* give run alone: the requests do not interact.                           *)
C8_RequestsDoNotInteract ==
    \A r \in Reqs :
        /\ pc[r] = "year" => df[r] = remote.frame
        /\ pc[r] = "country" => df[r] = AloneAfterYear(remote, crit[r]).frame
        /\ pc[r] = "market" => df[r] = AloneAfterCountry(remote, crit[r]).frame
        /\ pc[r] = "fillna" => df[r] = AloneAfterMarket(remote, crit[r]).frame
        /\ pc[r] = "emit" => df[r] = FillNa(AloneAfterMarket(remote, crit[r]).frame)
        /\ Returned(r) => ret[r] = AloneReturn(remote, crit[r])
        /\ pc[r] = "done" => resp[r] = AloneResponse(remote, crit[r])

(* Two requests in flight at once, each with its own narrowed frame.       *)
C8_Witness ==
    \E r, q \in Reqs :
        /\ pc[r] = "market" /\ pc[q] = "fillna"
        /\ nfilt[r] >= 1 /\ nfilt[q] >= 1
        /\ crit[r] # crit[q]
        /\ Len(df[r].rows) = 2 /\ Len(df[q].rows) = 1

(* The position of a request in its pass.                                  *)
Rank(p) ==
    CASE p = "idle" -> 0 [] p = "read" -> 1 [] p = "year" -> 2 [] p = "country" -> 3
      [] p = "market" -> 4 [] p = "fillna" -> 5 [] p = "emit" -> 6 [] p = "except" -> 7
      [] p = "api" -> 8 [] OTHER -> 9

C9_OneLoadFirst ==
    \A r \in Reqs :
        /\ loads[r] <= 1
        /\ pc[r] \in {"idle", "read"} => (loads[r] = 0 /\ nfilt[r] = 0 /\ df[r] = NoFrame)
        /\ pc[r] \notin {"idle", "read"} => loads[r] = 1
        /\ (pc[r] \notin {"idle", "read"} /\ remote.kind # "csv") =>
              /\ nfilt[r] = 0
              /\ df[r] = NoFrame
              /\ pc[r] \in {"except", "api", "done"}
              /\ Returned(r) => ret[r] = PyDict(StrOf(AloneLoaded(remote).exc))

(* C9: a request calls the loader exactly once, first, before any filter;  *)
(* a failed load is not retried and no filter follows it, the request ends *)
(* with the error body; and every request ends with a response after one   *)
(* linear pass: its statements only ever move forward, a started request   *)
(* always has a next statement to execute, and a finished one has its      *)
(* response.                                                               *)
C9_SingleLinearPass ==
    /\ []C9_OneLoadFirst
    /\ [][\A r \in Reqs : pc'[r] # pc[r] =>
             (Rank(pc'[r]) > Rank(pc[r]) \/ (pc[r] = "done" /\ pc'[r] = "idle"))]_vars
    /\ [](\A r \in Reqs :
             /\ pc[r] \notin {"idle", "done"} => ENABLED Run(r)
             /\ pc[r] = "done" => resp[r] # NoResp)

(* Under FairSpec the same pass as a progress property: a started request  *)
(* is eventually answered.                                                 *)
EventuallyAnswered ==
    \A r \in Reqs : (pc[r] = "read") ~> (pc[r] = "done" /\ resp[r] # NoResp)

(* A request whose only load failed and that ended with the error body.    *)
C9_Witness ==
    \E r \in Reqs :
        /\ pc[r] = "done"
        /\ remote.kind = "unreachable"
        /\ crit[r].year # None
        /\ loads[r] = 1 /\ nfilt[r] = 0
        /\ resp[r].body = ErrorObject("<urlopen error>")

(* C10: fetch_data always hands the route the serialised rows or an error  *)
(* dict, never None and never an exception; so the route's None branch and *)
(* its except branch (the 400) are never taken, and every error body goes  *)
(* out by the plain return with the default status.                        *)
C10_RouteAlwaysReturnsPlainly ==
    \A r \in Reqs :
        /\ Returned(r) => ret[r].py \in {"str", "dict"}
        /\ pc[r] = "done" =>
              /\ branch[r] = "return"
              /\ resp[r].status = 200
              /\ resp[r].body.j \in {"string", "object"}
              /\ exc[r] # NoExc => resp[r].body.j = "object"

(* An error body sent by the plain return, with status 200.                *)
C10_Witness ==
    \E r \in Reqs :
        /\ pc[r] = "done"
        /\ exc[r] = ValueError(NoDataMsg)
        /\ branch[r] = "return"
        /\ resp[r] = [status |-> 200, body |-> ErrorObject(NoDataMsg)]

====
